---- MODULE Spec2Model ----
(***************************************************************************)
(* The change list of app/src/ui/changes/changes-list.tsx: getFileList     *)
(* (the tree synthesizer), getOpenedFilesList (the visibility projector)   *)
(* and the ChangesList component that owns the node table (constructor,    *)
(* componentWillReceiveProps, onOpenChanged).                              *)
(*                                                                         *)
(* Objects.  The WorkingDirectoryFileChange objects of                     *)
(* props.workingDirectory.files are mutable and shared: getFileList writes *)
(* f.shown and f.index into them and stores the very same objects in the   *)
(* table.  workingDirectory is that array (the heap of the live objects);  *)
(* a file entry of a table is a reference into it.  When the props bring a *)
(* new array, the objects of the old array are never written again, so an  *)
(* entry that referred to one is replaced by the value the object then     *)
(* had (Freeze).                                                           *)
(***************************************************************************)
EXTENDS Integers, Sequences, FiniteSets, TLC

VARIABLES
  workingDirectory,  \* props.workingDirectory.files: the live file objects
  selection,         \* props.selectedFileIDs / selectedSketchFileID / selectedSketchPartID
  files,             \* state.files: the node table
  visibleFileList,   \* state.visibleFileList: ids of the projected rows, in order
  lastOp             \* the handler that ran last and how it ended

vars == <<workingDirectory, selection, files, visibleFileList, lastOp>>

----------------------------------------------------------------------------
(* Bounds and input alphabets *)

\* Changes per list in the component's life cycle (Spec).
MaxFiles == 2

\* Changes per list for the synthesis pass on its own (SynthSpec).
MaxSynthFiles == 3

Docs == {"a", "b"}
Pages == {"p", "q"}
Layers == {"l"}

Modified == [kind |-> "Modified"]
Conflicted == [kind |-> "Conflicted"]

\* status: undefined of a group no conflicted change has reached
NoStatus == [kind |-> "undefined"]

PartPaths ==
  {<<d>> : d \in Docs}
    \cup {<<d, p>> : d \in Docs, p \in Pages}
    \cup {<<d, p, l>> : d \in Docs, p \in Pages, l \in Layers}

RECURSIVE JoinTo(_, _)
\* arr.slice(0, n).join('/')
JoinTo(arr, n) ==
  IF n = 0 THEN ""
  ELSE IF n = 1 THEN arr[1]
  ELSE JoinTo(arr, n - 1) \o "/" \o arr[n]

Join(arr) == JoinTo(arr, Len(arr))

FileIdAt(k) == IF k = 1 THEN "f1" ELSE IF k = 2 THEN "f2" ELSE IF k = 3 THEN "f3" ELSE "f4"

\* What a change can be, but for its id: path, parts, whether it belongs to
\* a composite document, status, and whether it repeats the first id.
Shape(path, parts, sketch, status, firstId) ==
  [path |-> path, parts |-> parts, sketchFile |-> sketch, status |-> status,
   firstId |-> firstId]

\* The k-th change record of a list as the change-detection source delivers
\* it, before any getFileList pass has written shown and index into it.
\* Every conflicted change has a status object of its own: the status of the
\* k-th change carries k.
Change(shape, k) ==
  [id |-> IF shape.firstId THEN FileIdAt(1) ELSE FileIdAt(k),
   path |-> shape.path, parts |-> shape.parts, sketchFile |-> shape.sketchFile,
   status |-> IF shape.status.kind = "Conflicted"
              THEN [kind |-> "Conflicted", of |-> k]
              ELSE shape.status,
   shown |-> FALSE, index |-> -1]

ListOf(shapes, n) == [k \in 1..n |-> Change(shapes[k], k)]

\* What a change may be in the component's life cycle: a plain file, a
\* freshly added composite document (path = parts[0] + "/"), or a part of a
\* composite document.  Ids are unique.
CoreParts == {<<"a">>, <<"a", "p">>, <<"a", "p", "l">>, <<"a", "q">>}

CoreShapes ==
  {Shape("n", <<>>, FALSE, Modified, FALSE)}
    \cup {Shape("a/", <<"a">>, TRUE, Modified, FALSE)}
    \cup {Shape(Join(pp) \o "/n", pp, TRUE, Modified, FALSE) : pp \in CoreParts}

\* What a change may be for the synthesis pass on its own: every part path
\* over two documents, a composite document without parts, conflicted
\* changes, and changes that repeat the id of the first one.
SynthShapes ==
  {Shape("n", <<>>, FALSE, Modified, dup) : dup \in BOOLEAN}
    \cup {Shape("n", <<>>, TRUE, Modified, FALSE)}
    \cup {Shape("a/", <<"a">>, TRUE, Modified, FALSE)}
    \cup {Shape(Join(pp) \o "/n", pp, TRUE, Modified, FALSE) : pp \in PartPaths}
    \cup {Shape("a/p/n", <<"a", "p">>, TRUE, Modified, TRUE)}
    \cup {Shape(Join(pp) \o "/n", pp, TRUE, Conflicted, FALSE) :
            pp \in {<<"a", "p">>, <<"a", "q">>, <<"a", "p", "l">>, <<"b", "p">>}}

----------------------------------------------------------------------------
(* getFileList *)

Undefined == [def |-> FALSE]

Has(table, id) == id \in DOMAIN table

Put(table, id, v) ==
  [x \in DOMAIN table \cup {id} |-> IF x = id THEN v ELSE table[x]]

EmptyTable == [x \in {} |-> Undefined]

\* fakePartsAcc[parentId]: the group object, or undefined
Lookup(fakePartsAcc, id) ==
  IF Has(fakePartsAcc, id)
  THEN [def |-> TRUE, id |-> id, opened |-> fakePartsAcc[id].opened]
  ELSE Undefined

\* OpenedOf reading the old group's shown where it should read opened.
OpenedOf_ReadsShown(oldList, id, i) ==
  IF Has(oldList, id) /\ oldList[id].fakePart THEN oldList[id].shown ELSE i = 0

\* OpenedOf taking a group of the old table for an opened one:
\* (oldSketchPart && oldSketchPart.fakePart) || i === 0
OpenedOf_OldMeansOpened(oldList, id, i) ==
  (Has(oldList, id) /\ oldList[id].fakePart) \/ i = 0

\* OpenedOf with pages open by default, like documents.
OpenedOf_PagesOpen(oldList, id, i) ==
  IF Has(oldList, id) /\ oldList[id].fakePart THEN oldList[id].opened ELSE i <= 1

\* oldSketchPart && oldSketchPart.fakePart ? oldSketchPart.opened : i === 0
OpenedOf(oldList, id, i) ==
  IF Has(oldList, id) /\ oldList[id].fakePart THEN oldList[id].opened ELSE i = 0

FileTypeOf(i) == IF i = 0 THEN "SketchFile" ELSE IF i = 1 THEN "PageFile" ELSE "LayerFile"

\* PartShown without the parent's part in it.
PartShown_OpenedOnly(opened, parent) == opened

\* opened || !parentPartChange || parentPartChange.opened || false
PartShown(opened, parent) == opened \/ ~parent.def \/ parent.opened

\* (parentPartChange && parentPartChange.opened) || f.parts.length === 0 || false
FileShown(parent, f) == (parent.def /\ parent.opened) \/ Len(f.parts) = 0

\* AttachStatus without the test that the group has no status yet.
AttachStatus_Overwrites(st, id, f) ==
  IF /\ f.status.kind = "Conflicted"
     /\ Has(st.acc, id)
     /\ st.acc[id].fakePart
  THEN [st EXCEPT !.acc[id].status = f.status,
                  !.fake = IF Has(st.fake, id)
                           THEN [st.fake EXCEPT ![id].status = f.status]
                           ELSE st.fake]
  ELSE st

\* The skip branch: a conflicted change attaches its status to the group
\* already in the table when that group has none.
AttachStatus(st, id, f) ==
  IF /\ f.status.kind = "Conflicted"
     /\ Has(st.acc, id)
     /\ st.acc[id].fakePart
     /\ st.acc[id].status = NoStatus
  THEN [st EXCEPT !.acc[id].status = f.status,
                  !.fake = IF Has(st.fake, id)
                           THEN [st.fake EXCEPT ![id].status = f.status]
                           ELSE st.fake]
  ELSE st

\* One iteration of f.parts.forEach, i the 0-based position of the part.
PartStep(st, f, prevParts, i, oldList) ==
  LET part == f.parts[i + 1]
      st1 == IF i <= 1 THEN [st EXCEPT !.parent = Undefined] ELSE st
      parentId == JoinTo(f.parts, i)
      id == IF parentId # "" THEN parentId \o "/" \o part ELSE part
  IN IF i + 1 <= Len(prevParts) /\ part = prevParts[i + 1]
     THEN AttachStatus(st1, id, f)
     ELSE
       LET opened == OpenedOf(oldList, id, i)
           parent == IF ~st1.parent.def \/ (i > 1 /\ st1.parent.id # parentId)
                     THEN Lookup(st1.fake, parentId)
                     ELSE st1.parent
           partChange == [fakePart |-> TRUE,
                          opened |-> opened,
                          shown |-> PartShown(opened, parent),
                          type |-> FileTypeOf(i),
                          id |-> id,
                          name |-> part,
                          parts |-> SubSeq(f.parts, 1, i),
                          status |-> IF f.status.kind = "Conflicted"
                                     THEN f.status ELSE NoStatus,
                          index |-> st1.index]
       IN [st1 EXCEPT !.acc = Put(st1.acc, id, partChange),
                      !.fake = Put(st1.fake, id, partChange),
                      !.parent = [def |-> TRUE, id |-> id, opened |-> opened],
                      !.index = st1.index + 1]

RECURSIVE PartsLoop(_, _, _, _, _)
PartsLoop(st, f, prevParts, i, oldList) ==
  IF i >= Len(f.parts) THEN st
  ELSE PartsLoop(PartStep(st, f, prevParts, i, oldList), f, prevParts, i + 1, oldList)

\* Emit without index += 1.
Emit_NoIncrement(st, k, shown) ==
  [st EXCEPT !.heap[k].shown = shown,
             !.heap[k].index = st.index,
             !.acc = Put(st.acc, st.heap[k].id, [fakePart |-> FALSE, live |-> TRUE, ref |-> k])]

\* prev[f.id] = f with f.shown and f.index written into the object itself:
\* the table holds a reference to the k-th object of the array.
Emit(st, k, shown) ==
  [st EXCEPT !.heap[k].shown = shown,
             !.heap[k].index = st.index,
             !.acc = Put(st.acc, st.heap[k].id, [fakePart |-> FALSE, live |-> TRUE, ref |-> k]),
             !.index = st.index + 1]

\* FileStep without the branch for a freshly added composite document.
FileStep_NoSpecialCase(st, k, oldList) ==
  LET f == st.heap[k] IN
  IF f.sketchFile
  THEN
    LET prevParts == IF k > 1 THEN st.heap[k - 1].parts ELSE <<>>
        st1 == PartsLoop(st, f, prevParts, 0, oldList)
        parentId == Join(f.parts)
        parent == IF ~st1.parent.def \/ (Len(f.parts) > 1 /\ st1.parent.id # parentId)
                  THEN Lookup(st1.fake, parentId)
                  ELSE IF Len(f.parts) <= 1 THEN Undefined ELSE st1.parent
    IN Emit([st1 EXCEPT !.parent = parent], k, FileShown(parent, f))
  ELSE Emit(st, k, TRUE)

\* The body of the reduce callback for files[k - 1] (k is 1-based here).
FileStep(st, k, oldList) ==
  LET f == st.heap[k] IN
  IF f.sketchFile
  THEN
    IF Len(f.parts) = 1 /\ (f.parts[1] \o "/") = f.path
    THEN Emit(st, k, TRUE)
    ELSE
      LET prevParts == IF k > 1 THEN st.heap[k - 1].parts ELSE <<>>
          st1 == PartsLoop(st, f, prevParts, 0, oldList)
          parentId == Join(f.parts)
          parent == IF ~st1.parent.def \/ (Len(f.parts) > 1 /\ st1.parent.id # parentId)
                    THEN Lookup(st1.fake, parentId)
                    ELSE IF Len(f.parts) <= 1 THEN Undefined ELSE st1.parent
      IN Emit([st1 EXCEPT !.parent = parent], k, FileShown(parent, f))
  ELSE Emit(st, k, TRUE)

RECURSIVE Reduce(_, _, _)
Reduce(st, k, oldList) ==
  IF k > Len(st.heap) THEN st
  ELSE Reduce(FileStep(st, k, oldList), k + 1, oldList)

\* getFileList(files, oldList): the new table, and the array with what the
\* pass wrote into its objects.  oldList = EmptyTable stands for undefined.
getFileList(fs, oldList) ==
  LET st == Reduce([acc |-> EmptyTable, fake |-> EmptyTable, parent |-> Undefined,
                    index |-> 0, heap |-> fs], 1, oldList)
  IN [files |-> st.acc, heap |-> st.heap]

----------------------------------------------------------------------------
(* getOpenedFilesList *)

\* The object a table entry stands for.
Node(table, heap, id) ==
  IF table[id].fakePart THEN table[id]
  ELSE IF table[id].live THEN heap[table[id].ref]
  ELSE table[id].obj

RECURSIVE SortByIndex(_, _, _)
\* shownFiles.sort((a, b) => (a.index > b.index ? 1 : -1))
SortByIndex(table, heap, ids) ==
  IF ids = {} THEN <<>>
  ELSE LET m == CHOOSE x \in ids :
                  \A y \in ids : Node(table, heap, x).index <= Node(table, heap, y).index
       IN <<m>> \o SortByIndex(table, heap, ids \ {m})

\* getOpenedFilesList without the filter on shown.
getOpenedFilesList_Unfiltered(table, heap) ==
  SortByIndex(table, heap, DOMAIN table)

getOpenedFilesList(table, heap) ==
  SortByIndex(table, heap, {id \in DOMAIN table : Node(table, heap, id).shown})

----------------------------------------------------------------------------
(* ChangesList *)

\* The entries of a table whose objects belong to an array that has been
\* replaced, as values.
Freeze(table, heap) ==
  [id \in DOMAIN table |->
     IF ~table[id].fakePart /\ table[id].live
     THEN [fakePart |-> FALSE, live |-> FALSE, obj |-> heap[table[id].ref]]
     ELSE table[id]]

Selections ==
  {[ids |-> <<>>, sketchFile |-> "null", sketchPart |-> "null"],
   [ids |-> <<"f1">>, sketchFile |-> "null", sketchPart |-> "null"]}

\* arrayEquals(a.ids, b.ids) && a.sketchFile === b.sketchFile && a.sketchPart === b.sketchPart
SameSelection(a, b) ==
  a.ids = b.ids /\ a.sketchFile = b.sketchFile /\ a.sketchPart = b.sketchPart

\* Row ids a caller can pass to onOpenChanged: the keys of the table, and one
\* id that is in no table.
ToggleIds == DOMAIN files \cup {"zz"}

\* What the next props can bring as workingDirectory.files: a new array of new
\* objects, here the current changes without the first or without the last.
Fresh(fs) == [k \in 1..Len(fs) |-> [fs[k] EXCEPT !.shown = FALSE, !.index = -1]]

NextFiles ==
  IF Len(workingDirectory) = 0 THEN {}
  ELSE {Fresh(Tail(workingDirectory)),
        Fresh(SubSeq(workingDirectory, 1, Len(workingDirectory) - 1))}

\* constructor
Construct(fs, sel) ==
  \E r \in {getFileList(fs, EmptyTable)} :
  /\ workingDirectory = r.heap
  /\ selection = sel
  /\ files = r.files
  /\ visibleFileList = getOpenedFilesList(r.files, r.heap)
  /\ lastOp = [op |-> "constructor", result |-> "setState"]

Init ==
  \E n \in 0..MaxFiles : \E shapes \in [1..n -> CoreShapes] : \E sel \in Selections :
    Construct(ListOf(shapes, n), sel)

\* Toggled handing getFileList a table that holds the toggled group alone.
Toggled_ForgetsOtherGroups(table, heap, id, opened) ==
  IF ~Has(table, id)
  THEN [files |-> table, heap |-> heap, result |-> "TypeError"]
  ELSE IF ~table[id].fakePart
  THEN [files |-> table, heap |-> heap, result |-> "return"]
  ELSE LET r == getFileList(heap, [x \in {id} |-> [table[id] EXCEPT !.opened = opened]])
       IN [files |-> r.files, heap |-> r.heap, result |-> "setState"]

\* What onOpenChanged(id, opened) makes of a table and the array.
Toggled(table, heap, id, opened) ==
  IF ~Has(table, id)
  THEN \* files[id] is undefined: reading .fakePart of it throws
       [files |-> table, heap |-> heap, result |-> "TypeError"]
  ELSE IF ~table[id].fakePart
  THEN [files |-> table, heap |-> heap, result |-> "return"]
  ELSE LET r == getFileList(heap, [table EXCEPT ![id].opened = opened])
       IN [files |-> r.files, heap |-> r.heap, result |-> "setState"]

\* onOpenChanged(id, opened)
onOpenChanged(id, opened) ==
  \E r \in {Toggled(files, workingDirectory, id, opened)} :
  /\ lastOp' = [op |-> "onOpenChanged", result |-> r.result]
  /\ IF r.result = "setState"
     THEN /\ workingDirectory' = r.heap
          /\ files' = r.files
          /\ visibleFileList' = getOpenedFilesList(r.files, r.heap)
     ELSE UNCHANGED <<workingDirectory, files, visibleFileList>>
  /\ UNCHANGED selection

\* The guard the other way round: return early when the selection is the same.
SelectionGuard_Inverted(nextSelection, thisSelection) ==
  SameSelection(nextSelection, thisSelection)

\* The guard of componentWillReceiveProps: it returns early when this holds.
SelectionGuard(nextSelection, thisSelection) ==
  ~SameSelection(nextSelection, thisSelection)

\* componentWillReceiveProps(nextProps), and this.props = nextProps after it.
\* sameArray: nextProps.workingDirectory.files is the array of this.props.
componentWillReceiveProps(sameArray, nextFiles, nextSelection) ==
  LET old == IF sameArray THEN files ELSE Freeze(files, workingDirectory) IN
  IF SelectionGuard(nextSelection, selection)
  THEN /\ workingDirectory' = nextFiles
       /\ selection' = nextSelection
       /\ files' = old
       /\ lastOp' = [op |-> "componentWillReceiveProps", result |-> "return"]
       /\ UNCHANGED visibleFileList
  ELSE \E r \in {getFileList(nextFiles, old)} :
       /\ workingDirectory' = r.heap
       /\ selection' = nextSelection
       /\ files' = r.files
       /\ visibleFileList' = getOpenedFilesList(r.files, r.heap)
       /\ lastOp' = [op |-> "componentWillReceiveProps", result |-> "setState"]

ToggleGroup == \E id \in ToggleIds, opened \in BOOLEAN : onOpenChanged(id, opened)

\* New props with the same workingDirectory.files array.
Rerender ==
  \E sel \in Selections : componentWillReceiveProps(TRUE, workingDirectory, sel)

\* New props with a new workingDirectory.files array.
Rebuild ==
  \E fs \in NextFiles, sel \in Selections : componentWillReceiveProps(FALSE, fs, sel)

Next == ToggleGroup \/ Rerender \/ Rebuild

Spec == Init /\ [][Next]_vars

\* The synthesis pass on its own: the first pass over any list of SynthShapes,
\* and the pass again over the same array with the table of the first.
InitSynth ==
  \E n \in 0..MaxSynthFiles : \E shapes \in [1..n -> SynthShapes] :
    Construct(ListOf(shapes, n), [ids |-> <<>>, sketchFile |-> "null", sketchPart |-> "null"])

Resynthesize == componentWillReceiveProps(TRUE, workingDirectory, selection)

NextSynth == Resynthesize

SynthSpec == InitSynth /\ [][NextSynth]_vars

----------------------------------------------------------------------------
(* Properties *)

\* The nodes of a table, as values.
Deref(table, heap) == [id \in DOMAIN table |-> Node(table, heap, id)]

IsGroup(id) == files[id].fakePart

\* depth of a group: the length of the prefix before its own segment
Depth(id) == Len(files[id].parts)

\* The table was built from the array the props hold now: no entry refers to
\* an object of a replaced array.
Synced == \A id \in DOMAIN files : IsGroup(id) \/ files[id].live

\* A freshly added composite document: the change getFileList emits at once.
IsNewSketchFile(n) ==
  n.sketchFile /\ Len(n.parts) = 1 /\ (n.parts[1] \o "/") = n.path

\* C1 as claimed: in every table each group, and each file with a non-empty
\* part path (the freshly added composite document apart, which is shown
\* whatever its neighbours), is shown iff it is a depth-0 group or its
\* immediate parent group is in the table, opened and shown.
C1_ShownIffParentOpenedAndShown ==
  \A id \in DOMAIN files :
    LET n == Node(files, workingDirectory, id)
        parentId == Join(n.parts)
    IN (IsGroup(id) \/ (Len(n.parts) > 0 /\ ~IsNewSketchFile(n))) =>
         (n.shown <=>
            \/ IsGroup(id) /\ Len(n.parts) = 0
            \/ /\ Has(files, parentId)
               /\ IsGroup(parentId)
               /\ files[parentId].opened
               /\ files[parentId].shown)

\* The groups in the table before and after a step whose opened flag the
\* step changed.
OpenedChanged ==
  {id \in DOMAIN files \cap DOMAIN files' :
     files[id].fakePart /\ files'[id].fakePart /\ files'[id].opened # files[id].opened}

\* C2: a componentWillReceiveProps step never changes the opened flag of a
\* group whose id is in the table before and after it: the flag stays as the
\* last onOpenChanged left it, and an onOpenChanged step changes the flag of
\* one group at most.
C2_RebuildKeepsOpened ==
  [][/\ lastOp'.op = "componentWillReceiveProps" => OpenedChanged = {}
     /\ lastOp'.op = "onOpenChanged" => Cardinality(OpenedChanged) <= 1]_vars

\* C2 witness: a rebuild over a new, shorter array has run and the table holds
\* a nested group that is opened, which only an earlier onOpenChanged can
\* have made so.
C2_Witness ==
  /\ lastOp = [op |-> "componentWillReceiveProps", result |-> "setState"]
  /\ Len(workingDirectory) = 1
  /\ workingDirectory[1].id = "f2"
  /\ \E id \in DOMAIN files : IsGroup(id) /\ Depth(id) >= 1 /\ files[id].opened

Indices == {Node(files, workingDirectory, id).index : id \in DOMAIN files}

UniqueIds(fs) ==
  \A j, k \in 1..Len(fs) : j # k => fs[j].id # fs[k].id

HasPrefix(f, pre) ==
  Len(f.parts) >= Len(pre) /\ SubSeq(f.parts, 1, Len(pre)) = pre

\* Changes that share a part-path prefix are adjacent.
Grouped(fs) ==
  \A j, m \in 1..Len(fs) : \A i \in 1..Len(fs[j].parts) :
    (j < m /\ HasPrefix(fs[m], SubSeq(fs[j].parts, 1, i))) =>
      \A x \in j..m : HasPrefix(fs[x], SubSeq(fs[j].parts, 1, i))

C4_CollapseShortensProjection ==
  [][\A g \in DOMAIN files :
       (Synced /\ files[g].fakePart /\ files[g].opened /\ onOpenChanged(g, FALSE)) =>
         Len(visibleFileList') < Len(visibleFileList)]_vars

\* C5: with the table in step with the change list, for every opened group g
\* onOpenChanged(g, false) followed by onOpenChanged(g, true) gives back the
\* projection, and the nodes, there were before.
C5_CollapseThenExpandRestores ==
  Synced =>
    \A g \in DOMAIN files :
      (IsGroup(g) /\ files[g].opened) =>
        \E c \in {Toggled(files, workingDirectory, g, FALSE)} :
        \E e \in {Toggled(c.files, c.heap, g, TRUE)} :
          /\ getOpenedFilesList(e.files, e.heap) = visibleFileList
          /\ Deref(e.files, e.heap) = Deref(files, workingDirectory)

\* C5 witness: after an onOpenChanged, an opened group whose collapse changes
\* the projection of three or more rows.
C5_Witness ==
  /\ lastOp = [op |-> "onOpenChanged", result |-> "setState"]
  /\ Synced
  /\ Len(visibleFileList) >= 3
  /\ \E g \in DOMAIN files :
       /\ IsGroup(g) /\ files[g].opened
       /\ \E c \in {Toggled(files, workingDirectory, g, FALSE)} :
            /\ getOpenedFilesList(c.files, c.heap) # visibleFileList
            /\ \E e \in {Toggled(c.files, c.heap, g, TRUE)} :
                 getOpenedFilesList(e.files, e.heap) = visibleFileList

IsFirstSynthesis == lastOp.op = "constructor"

SingleNested ==
  /\ Len(workingDirectory) = 1
  /\ workingDirectory[1].sketchFile
  /\ Len(workingDirectory[1].parts) >= 2

\* C6 as claimed: on a first synthesis every depth-0 group is opened and shown,
\* every group of depth >= 1 is closed and not shown, every file under a nested
\* group is not shown, and a single change with two or more segments projects
\* to its document group alone.
C6_FirstSynthesisHidesNested ==
  IsFirstSynthesis =>
    /\ \A id \in DOMAIN files :
         IF IsGroup(id)
         THEN IF Depth(id) = 0
              THEN files[id].opened /\ files[id].shown
              ELSE ~files[id].opened /\ ~files[id].shown
         ELSE Len(Node(files, workingDirectory, id).parts) >= 2 =>
                ~Node(files, workingDirectory, id).shown
    /\ SingleNested => visibleFileList = <<workingDirectory[1].parts[1]>>

\* C6 amended: on a first synthesis every depth-0 group is opened and shown,
\* every group of depth >= 1 is closed, every depth-1 group is shown, every
\* group of depth >= 2 whose parent group was synthesized before it is not
\* shown, every file under a nested group is not shown, and a single change
\* with two or more segments projects to its document group followed by its
\* page group.
C6_FirstSynthesisDefaults ==
  IsFirstSynthesis =>
    /\ \A id \in DOMAIN files :
         IF IsGroup(id)
         THEN /\ Depth(id) = 0 => files[id].opened /\ files[id].shown
              /\ Depth(id) >= 1 => ~files[id].opened
              /\ Depth(id) = 1 => files[id].shown
              /\ (/\ Depth(id) >= 2
                  /\ Has(files, Join(files[id].parts))
                  /\ IsGroup(Join(files[id].parts))
                  /\ files[Join(files[id].parts)].index < files[id].index) =>
                   ~files[id].shown
         ELSE Len(Node(files, workingDirectory, id).parts) >= 2 =>
                ~Node(files, workingDirectory, id).shown
    /\ SingleNested =>
         visibleFileList = <<workingDirectory[1].parts[1],
                             JoinTo(workingDirectory[1].parts, 2)>>

\* C6 witness: the first synthesis of the single change a/p/l.
C6_Witness ==
  /\ IsFirstSynthesis
  /\ Len(workingDirectory) = 1
  /\ workingDirectory[1].parts = <<"a", "p", "l">>
  /\ DOMAIN files = {"a", "a/p", "a/p/l", "f1"}
  /\ visibleFileList = <<"a", "a/p">>

\* The scenario of C7: right after the first synthesis of a single change
\* with three segments d, p, l.
SingleThreeSegments ==
  /\ lastOp.op = "constructor"
  /\ Len(workingDirectory) = 1
  /\ workingDirectory[1].sketchFile
  /\ Len(workingDirectory[1].parts) = 3

\* C7 as claimed: from there onOpenChanged("d/p", true) gives the projection
\* d, d/p, and the file of the change.
C7_OpenPageShowsFile ==
  [][(SingleThreeSegments
        /\ onOpenChanged(JoinTo(workingDirectory[1].parts, 2), TRUE)) =>
       visibleFileList' = <<workingDirectory[1].parts[1],
                            JoinTo(workingDirectory[1].parts, 2),
                            workingDirectory[1].id>>]_vars

\* C7 amended: from there onOpenChanged("d/p", true) gives a projection of
\* three rows, d, d/p and the group d/p/l; the file of the change is not
\* in it.
C7_OpenPageShowsLayerGroup ==
  [][(SingleThreeSegments
        /\ onOpenChanged(JoinTo(workingDirectory[1].parts, 2), TRUE)) =>
       visibleFileList' = <<workingDirectory[1].parts[1],
                            JoinTo(workingDirectory[1].parts, 2),
                            Join(workingDirectory[1].parts)>>]_vars

\* C7 witness: the single change a/p/l, a/p opened by onOpenChanged, a/p/l
\* still closed.
C7_Witness ==
  /\ lastOp = [op |-> "onOpenChanged", result |-> "setState"]
  /\ Len(workingDirectory) = 1
  /\ workingDirectory[1].parts = <<"a", "p", "l">>
  /\ DOMAIN files = {"a", "a/p", "a/p/l", "f1"}
  /\ files["a"].opened /\ files["a/p"].opened /\ ~files["a/p/l"].opened
  /\ visibleFileList = <<"a", "a/p", "a/p/l">>
  /\ ~workingDirectory[1].shown

\* C8 as claimed: onOpenChanged with an id that is no key of the table raises
\* no error and leaves the table and the projection as they were.
C8_ToggleOfMissingIdIsNoOp ==
  [][\A id \in ToggleIds, opened \in BOOLEAN :
       (~Has(files, id) /\ onOpenChanged(id, opened)) =>
         /\ lastOp'.result # "TypeError"
         /\ files' = files
         /\ visibleFileList' = visibleFileList]_vars

\* Every change of the array has its entry in the table, referring to it.
Synthesized(table, fs) ==
  \A k \in 1..Len(fs) :
    Has(table, fs[k].id) /\ ~table[fs[k].id].fakePart /\ table[fs[k].id].live

\* C9 as claimed: componentWillReceiveProps with the selection identifiers
\* unchanged leaves the table and the projection as they were, and it
\* synthesizes when they differ.
C9_RebuildSkippedWhenSelectionSame ==
  [][lastOp'.op = "componentWillReceiveProps" =>
       IF SameSelection(selection', selection)
       THEN /\ Deref(files', workingDirectory') = Deref(files, workingDirectory)
            /\ visibleFileList' = visibleFileList
       ELSE lastOp'.result = "setState"]_vars

\* C9 amended: componentWillReceiveProps with selection identifiers that
\* differ from the previous ones leaves the table and the projection as they
\* were, whatever the change list; with the identifiers unchanged it
\* synthesizes the table of the new change list and projects it.
C9_RebuildSkippedWhenSelectionDiffers ==
  [][lastOp'.op = "componentWillReceiveProps" =>
       IF ~SameSelection(selection', selection)
       THEN /\ lastOp'.result = "return"
            /\ Deref(files', workingDirectory') = Deref(files, workingDirectory)
            /\ visibleFileList' = visibleFileList
       ELSE /\ lastOp'.result = "setState"
            /\ Synthesized(files', workingDirectory')
            /\ \A id \in DOMAIN files' :
                 ~files'[id].fakePart => id \in {workingDirectory'[k].id : k \in 1..Len(workingDirectory')}]_vars

\* C9 witness: the handler returned early and the props hold a change list
\* the table was not built from.
C9_Witness ==
  /\ lastOp = [op |-> "componentWillReceiveProps", result |-> "return"]
  /\ ~Synced
  /\ Cardinality({id \in DOMAIN files : ~IsGroup(id)}) > Len(workingDirectory)

\* C10 as claimed: a getFileList pass leaves every node of the table it was
\* given with the values it had; here for the passes over the array the
\* table refers to (onOpenChanged, and new props with the same array).
C10_SynthesisLeavesPreviousTable ==
  [][(lastOp'.result = "setState" /\ Len(workingDirectory') = Len(workingDirectory)) =>
       \A id \in DOMAIN files :
         (~files[id].fakePart /\ files[id].live) =>
           workingDirectory'[files[id].ref] = workingDirectory[files[id].ref]]_vars

\* C11: the pass over a change list with the table of the first pass over
\* the same list as previous table gives the table of the first pass: the
\* same ids, and for each node the same opened, shown, index, parts, type and
\* status; the projection is the same too.
C11_SecondPassIsFixedPoint ==
  [][(lastOp.op = "constructor" /\ lastOp'.op = "componentWillReceiveProps") =>
       /\ lastOp'.result = "setState"
       /\ workingDirectory' = workingDirectory
       /\ DOMAIN files' = DOMAIN files
       /\ Deref(files', workingDirectory') = Deref(files, workingDirectory)
       /\ visibleFileList' = visibleFileList]_vars

\* C11 witness: the second pass has run over three changes, one of them
\* conflicted, with groups of every depth in the table.
C11_Witness ==
  /\ lastOp = [op |-> "componentWillReceiveProps", result |-> "setState"]
  /\ Len(workingDirectory) = 3
  /\ \E id \in DOMAIN files : IsGroup(id) /\ Depth(id) = 2
  /\ \E id \in DOMAIN files : IsGroup(id) /\ files[id].status.kind = "Conflicted"
  /\ \E id \in DOMAIN files : IsGroup(id) /\ Depth(id) = 1 /\ ~files[id].opened

\* rowCount={visibleFileList.length}
rowCount == Len(visibleFileList)

\* C12: after every constructor, componentWillReceiveProps and onOpenChanged
\* step the rows of the view are exactly the nodes of the table that are
\* shown, each once, in strictly ascending order of index, and the row count
\* handed to the list is their number.
C12_ViewIsShownNodesByIndex ==
  /\ {visibleFileList[r] : r \in 1..Len(visibleFileList)} =
       {id \in DOMAIN files : Node(files, workingDirectory, id).shown}
  /\ \A r, t \in 1..Len(visibleFileList) :
       r < t => Node(files, workingDirectory, visibleFileList[r]).index
                  < Node(files, workingDirectory, visibleFileList[t]).index
  /\ rowCount = Cardinality({id \in DOMAIN files : Node(files, workingDirectory, id).shown})

\* C12 witness: after an onOpenChanged that synthesized, a table with hidden
\* nodes and a view of three or more rows, groups and files among them.
C12_Witness ==
  /\ lastOp = [op |-> "onOpenChanged", result |-> "setState"]
  /\ rowCount >= 3
  /\ rowCount < Cardinality(DOMAIN files)
  /\ \E r \in 1..rowCount : IsGroup(visibleFileList[r])
  /\ \E r \in 1..rowCount : ~IsGroup(visibleFileList[r])

\* The state of the reduce of getFileList(fs, oldList) when it reaches the
\* k-th change: the changes before it have been processed, the k-th and
\* those after it are as the pass found them.
PassBefore(fs, k, oldList) ==
  LET done == Reduce([acc |-> EmptyTable, fake |-> EmptyTable, parent |-> Undefined,
                      index |-> 0, heap |-> SubSeq(fs, 1, k - 1)], 1, oldList)
  IN [done EXCEPT !.heap = done.heap \o SubSeq(fs, k, Len(fs))]

Groups(table) == {id \in DOMAIN table : table[id].fakePart}

\* C13: in a pass over the change list, without a previous table or with the
\* current table as previous one, the step for a freshly added composite
\* document writes one entry, the file under its id, shown and with the index
\* the counter had, moves the counter on by one, and synthesizes no group:
\* the groups and every other entry of the table are as before the step.
C13_NewSketchFileIsOneShownFile ==
  \A k \in 1..Len(workingDirectory) : \A oldList \in {EmptyTable, files} :
    IsNewSketchFile(workingDirectory[k]) =>
      \E b \in {PassBefore(workingDirectory, k, oldList)} :
      \E a \in {FileStep(b, k, oldList)} :
        /\ DOMAIN a.acc = DOMAIN b.acc \cup {workingDirectory[k].id}
        /\ a.acc[workingDirectory[k].id] = [fakePart |-> FALSE, live |-> TRUE, ref |-> k]
        /\ a.heap[k].shown
        /\ a.heap[k].index = b.index
        /\ a.index = b.index + 1
        /\ a.fake = b.fake
        /\ Groups(a.acc) \ {workingDirectory[k].id} = Groups(b.acc) \ {workingDirectory[k].id}
        /\ \A id \in DOMAIN b.acc \ {workingDirectory[k].id} : a.acc[id] = b.acc[id]

\* C13 witness: the pass has run again, with a previous table, over a list
\* whose second change is a freshly added composite document that follows a
\* decomposed change of the same document; its file is shown, its index is
\* not 0.
C13_Witness ==
  /\ lastOp = [op |-> "componentWillReceiveProps", result |-> "setState"]
  /\ Len(workingDirectory) = 3
  /\ IsNewSketchFile(workingDirectory[2])
  /\ workingDirectory[1].parts = <<"a", "p">>
  /\ workingDirectory[3].parts = <<"a", "q">>
  /\ UniqueIds(workingDirectory)
  /\ workingDirectory[2].shown
  /\ workingDirectory[2].index = 3
  /\ Groups(files) = {"a", "a/p", "a/q"}

\* A change getFileList decomposes into groups: part of a composite document,
\* not the freshly added document itself.
IsDecomposed(f) == f.sketchFile /\ ~IsNewSketchFile(f)

\* The skip rule fires for the change at k at depth i (0-based): its segment
\* there equals the segment at the same depth of the change before it.
SkipFires(fs, k, i) ==
  /\ k > 1
  /\ IsDecomposed(fs[k])
  /\ i < Len(fs[k].parts)
  /\ i < Len(fs[k - 1].parts)
  /\ fs[k].parts[i + 1] = fs[k - 1].parts[i + 1]

\* C14 as claimed, for the first pass over lists of distinct ids, without a
\* freshly added composite document, in which changes sharing a part-path
\* prefix are adjacent: whenever the skip rule
\* fires, the group of the current change's segments 0..i is in the table
\* the pass has built so far, and after the pass every prefix of the part
\* path of every decomposed change has its group in the table.
C14_SkipFindsGroup ==
  (/\ IsFirstSynthesis
   /\ UniqueIds(workingDirectory)
   /\ Grouped(workingDirectory)
   /\ \A k \in 1..Len(workingDirectory) : ~IsNewSketchFile(workingDirectory[k])) =>
    /\ \A k \in 1..Len(workingDirectory) : \A i \in 0..2 :
         SkipFires(workingDirectory, k, i) =>
           \E b \in {PassBefore(workingDirectory, k, EmptyTable)} :
             /\ Has(b.acc, JoinTo(workingDirectory[k].parts, i + 1))
             /\ b.acc[JoinTo(workingDirectory[k].parts, i + 1)].fakePart
    /\ \A k \in 1..Len(workingDirectory) :
         IsDecomposed(workingDirectory[k]) =>
           \A i \in 1..Len(workingDirectory[k].parts) :
             /\ Has(files, JoinTo(workingDirectory[k].parts, i))
             /\ IsGroup(JoinTo(workingDirectory[k].parts, i))

\* The conflicted changes beneath group g of the table: those whose part
\* path begins with the segments of g.
ConflictedBeneath(g) ==
  {k \in 1..Len(workingDirectory) :
     /\ IsDecomposed(workingDirectory[k])
     /\ workingDirectory[k].status.kind = "Conflicted"
     /\ HasPrefix(workingDirectory[k], Append(files[g].parts, files[g].name))}

FirstOf(ks) == CHOOSE k \in ks : \A j \in ks : k <= j

RECURSIVE OpenAll(_, _, _)
\* onOpenChanged(g, true) for every group g of gs, one after the other.
OpenAll(table, heap, gs) ==
  IF gs = {} THEN [files |-> table, heap |-> heap]
  ELSE LET g == CHOOSE x \in gs : TRUE
           r == Toggled(table, heap, g, TRUE)
       IN OpenAll(r.files, r.heap, gs \ {g})

\* C16 as claimed, for lists of distinct ids without a freshly added
\* composite document, in which changes sharing a part-path prefix are
\* adjacent and every decomposed change has two or more segments: once
\* onOpenChanged(g, true) has run for every group of the table, all groups
\* are opened, every node of the table is shown, and the projection has one
\* row per node.
C16_AllOpenedShowsEveryNode ==
  (/\ Synced
   /\ UniqueIds(workingDirectory)
   /\ Grouped(workingDirectory)
   /\ \A k \in 1..Len(workingDirectory) :
        /\ ~IsNewSketchFile(workingDirectory[k])
        /\ IsDecomposed(workingDirectory[k]) => Len(workingDirectory[k].parts) >= 2) =>
    \E r \in {OpenAll(files, workingDirectory, Groups(files))} :
      /\ \A id \in DOMAIN r.files : r.files[id].fakePart => r.files[id].opened
      /\ \A id \in DOMAIN r.files : Node(r.files, r.heap, id).shown
      /\ Len(getOpenedFilesList(r.files, r.heap)) = Cardinality(DOMAIN r.files)
      /\ \A k \in 1..Len(workingDirectory) :
           \E row \in 1..Len(getOpenedFilesList(r.files, r.heap)) :
             getOpenedFilesList(r.files, r.heap)[row] = workingDirectory[k].id

====
